---- MODULE Spec2Model ----
(***************************************************************************)
(* The name store of src/python/tempCodeRunnerFile.py: three functions     *)
(* (create_table, insert_name, fetch_all_names) over one pymysql           *)
(* connection to a MySQL table names(id AUTO_INCREMENT PRIMARY KEY, name), *)
(* and the __main__ script that calls them in a fixed order.               *)
(*                                                                         *)
(* The database is the durable state (tableExists, rows, autoInc); the     *)
(* connection carries the open transaction (pending) because pymysql       *)
(* connects with autocommit off.  Every cursor.execute and every           *)
(* connection.commit is a request that the environment may fail; the       *)
(* fault of a call is an input of the action.                              *)
(*                                                                         *)
(* Two specifications:                                                     *)
(*   Spec      any caller: the functions called in any order, on open,     *)
(*             closed and lost connections, across reconnects;             *)
(*   SpecMain  the __main__ script, executed MaxRuns times on the same     *)
(*             database.                                                   *)
(***************************************************************************)
EXTENDS Integers, Sequences, FiniteSets

\* Bounds of the model.
MaxId == 3       \* Spec: AUTO_INCREMENT values handed out (rows + burnt ids)
MaxRuns == 2     \* SpecMain: executions of the script

VARIABLES
    tableExists,  \* database: the names table exists
    rows,         \* database: committed rows, in insertion order, [id, name]
    autoInc,      \* database: next AUTO_INCREMENT value of names.id
    pending,      \* connection: rows inserted by the open transaction
    conn,         \* connection: "none" | "open" | "lost" | "closed"
    all_names,    \* caller: the list the last successful fetch_all_names returned
    last,         \* history: the last call, its outcome and the state before it
    acked,        \* history: rows whose insert_name call returned normally
    growth,       \* history: inserts since the last successful fetch_all_names
    pc,           \* script: position in __main__
    stdout,       \* script: what this run printed
    issued,       \* script: the calls this run has made, in order
    failure,      \* script: Len(issued) when this run's first call raised, else 0
    runs,         \* script: executions started
    okRuns,       \* script: executions that reached the end
    crashes,      \* script: executions ended by an unhandled exception
    rowsAtStart   \* script: the committed rows when this run started

dbvars == <<tableExists, rows, autoInc, pending, conn, all_names, last, acked, growth>>
mainvars == <<pc, stdout, issued, failure, runs, okRuns, crashes, rowsAtStart>>
vars == <<dbvars, mainvars>>

Names == {"Khushi", "Alice"}

ExecFaults == {"exec_reject", "exec_lost", "exec_lost_after"}
CommitFaults == {"commit_reject", "commit_lost", "commit_lost_after"}
\* The faults a call can meet: none reaches a connection that is not open.
FaultsOf(c, fs) == IF c = "open" THEN {"none"} \cup fs ELSE {"none"}

----------------------------------------------------------------------------
\* Helpers on sequences.

NamesOf(rs) == [i \in 1..Len(rs) |-> rs[i].name]

IdsOf(rs) == {rs[i].id : i \in 1..Len(rs)}

Count(seq, x) == Cardinality({i \in 1..Len(seq) : seq[i] = x})

\* Same elements with the same multiplicities.
SameBag(a, b) == Len(a) = Len(b) /\ \A x \in Names : Count(a, x) = Count(b, x)

IsPrefix(a, b) == Len(a) <= Len(b) /\ \A i \in 1..Len(a) : a[i] = b[i]

Perms(n) == {p \in [1..n -> 1..n] : \A i, j \in 1..n : p[i] = p[j] => i = j}

----------------------------------------------------------------------------
\* The session a call works on: the database and the connection, plus the
\* call's outcome (raised, result).

Session ==
    [exists |-> tableExists, rows |-> rows, autoInc |-> autoInc,
     pending |-> pending, conn |-> conn, raised |-> FALSE, result |-> <<>>]

\* A request is sent only on a connected socket; otherwise pymysql raises.
ConnUsableAlways(s) == TRUE

ConnUsable(s) == s.conn = "open"

\* The call raises; the server keeps the connection.
Fail(s) == [s EXCEPT !.raised = TRUE]

\* The call raises because the connection broke; the server rolls the open
\* transaction back.
Lose(s) == [s EXCEPT !.raised = TRUE, !.conn = "lost", !.pending = <<>>]

\* The open transaction becomes durable.
Durable(s) == [s EXCEPT !.rows = s.rows \o s.pending, !.pending = <<>>]

\* cursor.execute(stmt): `applied` is the session after the server has applied
\* the statement.
Execute(s, applied, f) ==
    IF ~ConnUsable(s) THEN Fail(s)
    ELSE IF f = "exec_reject" THEN Fail(s)
    ELSE IF f = "exec_lost" THEN Lose(s)
    ELSE IF f = "exec_lost_after" THEN Lose(applied)
    ELSE applied

\* connection.commit(): a COMMIT the server rejects has rolled back; a COMMIT
\* whose reply is lost may or may not have been applied.
Commit(s, f) ==
    IF ~ConnUsable(s) THEN Fail(s)
    ELSE IF f = "commit_reject" THEN Fail([s EXCEPT !.pending = <<>>])
    ELSE IF f = "commit_lost" THEN Lose(s)
    ELSE IF f = "commit_lost_after" THEN Lose(Durable(s))
    ELSE Durable(s)

\* CREATE TABLE without IF NOT EXISTS: rejected when the table exists.
CreateTableStmtStrict(s) ==
    IF s.exists THEN Fail(s) ELSE [Durable(s) EXCEPT !.exists = TRUE]

\* DROP TABLE + CREATE TABLE: the rows are gone.
CreateTableStmtRecreate(s) ==
    [s EXCEPT !.exists = TRUE, !.rows = <<>>, !.pending = <<>>]

\* CREATE TABLE IF NOT EXISTS names (...): DDL, committed by the server on its
\* own (with whatever the transaction held); nothing changes when the table
\* exists.
CreateTableStmt(s) == [Durable(s) EXCEPT !.exists = TRUE]

\* An insert that skips a name already stored.
InsertStmtUnique(s, name) ==
    IF ~s.exists THEN Fail(s)
    ELSE IF \E i \in 1..Len(s.rows \o s.pending) : (s.rows \o s.pending)[i].name = name
    THEN s
    ELSE [s EXCEPT !.pending = Append(s.pending, [id |-> s.autoInc, name |-> name]),
                   !.autoInc = s.autoInc + 1]

\* REPLACE INTO with the name as key: the stored row of that name is deleted.
InsertStmtReplace(s, name) ==
    IF ~s.exists THEN Fail(s)
    ELSE [s EXCEPT !.rows = SelectSeq(s.rows, LAMBDA r : r.name # name),
                   !.pending = Append(s.pending, [id |-> s.autoInc, name |-> name]),
                   !.autoInc = s.autoInc + 1]

\* INSERT INTO names (name) VALUES (%s): one row with the next id, in the open
\* transaction; the id is consumed whether or not the transaction commits.
InsertStmt(s, name) ==
    IF ~s.exists THEN Fail(s)
    ELSE [s EXCEPT !.pending = Append(s.pending, [id |-> s.autoInc, name |-> name]),
                   !.autoInc = s.autoInc + 1]

\* SELECT DISTINCT name: each name once.
SelectStmtDistinct(s, order) ==
    IF ~s.exists THEN Fail(s)
    ELSE LET visible == NamesOf(s.rows \o s.pending)
             firsts == SelectSeq([i \in 1..Len(visible) |-> i],
                          LAMBDA i : \A j \in 1..(i - 1) : visible[j] # visible[i])
         IN  [s EXCEPT !.result = [i \in 1..Len(firsts) |-> visible[firsts[i]]]]

\* SELECT name FROM names: the committed rows and the transaction's own, in
\* the order the server chooses (no ORDER BY).
SelectStmt(s, order) ==
    IF ~s.exists THEN Fail(s)
    ELSE LET visible == NamesOf(s.rows \o s.pending)
         IN  [s EXCEPT !.result = [i \in 1..Len(visible) |-> visible[order[i]]]]

----------------------------------------------------------------------------
\* The three functions, and close.

create_table(s, f) ==
    LET s1 == Execute(s, CreateTableStmt(s), f)
    IN  IF s1.raised THEN s1 ELSE Commit(s1, f)

\* insert_name without line 28.
insert_name_nocommit(s, name, f) == Execute(s, InsertStmt(s, name), f)

insert_name(s, name, f) ==
    LET s1 == Execute(s, InsertStmt(s, name), f)
    IN  IF s1.raised THEN s1 ELSE Commit(s1, f)

fetch_all_names(s, order, f) == Execute(s, SelectStmt(s, order), f)

\* connection.close(): raises on a connection already closed; the server
\* rolls back what was not committed.
close(s) ==
    IF s.conn = "closed" THEN Fail(s)
    ELSE [s EXCEPT !.conn = "closed", !.pending = <<>>]

----------------------------------------------------------------------------
\* A finished call: the database, the connection and the caller's variable
\* take the call's outcome; the history variables record it.

Record(op, name, f, s2) ==
    [op |-> op, name |-> name, fault |-> f, raised |-> s2.raised,
     conn0 |-> conn, exists0 |-> tableExists, rows0 |-> rows,
     autoInc0 |-> autoInc, growth0 |-> growth]

Grown(op, s2) ==
    IF op = "insert_name"
    THEN IF s2.raised THEN [growth EXCEPT !.valid = FALSE]
         ELSE [growth EXCEPT !.n = growth.n + 1]
    ELSE IF op = "fetch_all_names" /\ ~s2.raised
    THEN [base |-> Len(s2.result), n |-> 0, valid |-> TRUE]
    ELSE growth

Apply(op, name, f, s2) ==
    /\ tableExists' = s2.exists
    /\ rows' = s2.rows
    /\ autoInc' = s2.autoInc
    /\ pending' = s2.pending
    /\ conn' = s2.conn
    /\ all_names' = IF op = "fetch_all_names" /\ ~s2.raised THEN s2.result ELSE all_names
    /\ last' = Record(op, name, f, s2)
    /\ acked' = IF op = "insert_name" /\ ~s2.raised
                THEN Append(acked, [id |-> autoInc, name |-> name])
                ELSE acked
    /\ growth' = Grown(op, s2)

\* pymysql.connect(...): a new connection, or an exception.
create_connection(s, f) ==
    IF f = "connect_fail" THEN Fail(s)
    ELSE [s EXCEPT !.conn = "open", !.pending = <<>>]

NoCall == [op |-> "", name |-> "", fault |-> "none", raised |-> FALSE,
           conn0 |-> "none", exists0 |-> FALSE, rows0 |-> <<>>,
           autoInc0 |-> 1, growth0 |-> [base |-> 0, n |-> 0, valid |-> FALSE]]

Init ==
    /\ tableExists = FALSE
    /\ rows = <<>>
    /\ autoInc = 1
    /\ pending = <<>>
    /\ conn = "none"
    /\ all_names = <<>>
    /\ last = NoCall
    /\ acked = <<>>
    /\ growth = [base |-> 0, n |-> 0, valid |-> FALSE]
    /\ pc = "start"
    /\ stdout = <<>>
    /\ issued = <<>>
    /\ failure = 0
    /\ runs = 1
    /\ okRuns = 0
    /\ crashes = 0
    /\ rowsAtStart = <<>>

----------------------------------------------------------------------------
\* Spec: any caller of the module's functions.

CallConnect ==
    /\ conn # "open"
    /\ \E f \in {"none", "connect_fail"} :
          Apply("create_connection", "", f, create_connection(Session, f))
    /\ UNCHANGED mainvars

CallCreateTable ==
    /\ conn # "none"
    /\ \E f \in FaultsOf(conn, ExecFaults \cup CommitFaults) :
          Apply("create_table", "", f, create_table(Session, f))
    /\ UNCHANGED mainvars

CallInsert ==
    /\ conn # "none"
    /\ autoInc <= MaxId
    /\ \E name \in Names, f \in FaultsOf(conn, ExecFaults \cup CommitFaults) :
          Apply("insert_name", name, f, insert_name(Session, name, f))
    /\ UNCHANGED mainvars

CallFetch ==
    /\ conn # "none"
    /\ \E f \in FaultsOf(conn, ExecFaults), order \in Perms(Len(rows) + Len(pending)) :
          Apply("fetch_all_names", "", f, fetch_all_names(Session, order, f))
    /\ UNCHANGED mainvars

CallClose ==
    /\ conn # "none"
    /\ Apply("close", "", "none", close(Session))
    /\ UNCHANGED mainvars

Next == CallConnect \/ CallCreateTable \/ CallInsert \/ CallFetch \/ CallClose

Spec == Init /\ [][Next]_vars

----------------------------------------------------------------------------
\* SpecMain: the __main__ script.  No call is wrapped in try/except, so an
\* exception leaves the script at once.

Script == <<"create_connection", "create_table", "insert_name", "insert_name",
            "fetch_all_names", "close">>

\* An exception that is swallowed: the script goes on.
AfterCallSwallow(raised, next) == next

AfterCall(raised, next) == IF raised THEN "crashed" ELSE next

MainStep(op, name, f, s2, next) ==
    /\ Apply(op, name, f, s2)
    /\ pc' = AfterCall(s2.raised, next)
    /\ issued' = Append(issued, op)
    /\ failure' = IF s2.raised /\ failure = 0 THEN Len(issued) + 1 ELSE failure
    /\ crashes' = IF pc' = "crashed" THEN crashes + 1 ELSE crashes
    /\ okRuns' = IF pc' = "done" THEN okRuns + 1 ELSE okRuns
    /\ UNCHANGED <<stdout, runs, rowsAtStart>>

MainConnect ==
    /\ pc = "start"
    /\ \E f \in {"none", "connect_fail"} :
          MainStep("create_connection", "", f, create_connection(Session, f), "create_table")

MainCreateTable ==
    /\ pc = "create_table"
    /\ \E f \in FaultsOf(conn, ExecFaults \cup CommitFaults) :
          MainStep("create_table", "", f, create_table(Session, f), "insert_khushi")

MainInsertKhushi ==
    /\ pc = "insert_khushi"
    /\ \E f \in FaultsOf(conn, ExecFaults \cup CommitFaults) :
          MainStep("insert_name", "Khushi", f, insert_name(Session, "Khushi", f), "insert_alice")

MainInsertAlice ==
    /\ pc = "insert_alice"
    /\ \E f \in FaultsOf(conn, ExecFaults \cup CommitFaults) :
          MainStep("insert_name", "Alice", f, insert_name(Session, "Alice", f), "fetch")

MainFetch ==
    /\ pc = "fetch"
    /\ \E f \in FaultsOf(conn, ExecFaults), order \in Perms(Len(rows) + Len(pending)) :
          MainStep("fetch_all_names", "", f, fetch_all_names(Session, order, f), "print")

MainPrint ==
    /\ pc = "print"
    /\ stdout' = Append(stdout, all_names)
    /\ pc' = "close"
    /\ UNCHANGED <<dbvars, issued, failure, runs, okRuns, crashes, rowsAtStart>>

MainClose ==
    /\ pc = "close"
    /\ MainStep("close", "", "none", close(Session), "done")

Terminated == pc \in {"done", "crashed"}

\* The process is gone (its socket with it, and the transaction the server
\* held for it); the script is executed again on the same database.
NextRun ==
    /\ Terminated
    /\ runs < MaxRuns
    /\ runs' = runs + 1
    /\ pc' = "start"
    /\ conn' = "none"
    /\ pending' = <<>>
    /\ all_names' = <<>>
    /\ stdout' = <<>>
    /\ issued' = <<>>
    /\ failure' = 0
    /\ last' = NoCall
    /\ rowsAtStart' = rows
    /\ UNCHANGED <<tableExists, rows, autoInc, acked, growth, okRuns, crashes>>

NextMain ==
    \/ MainConnect \/ MainCreateTable \/ MainInsertKhushi \/ MainInsertAlice
    \/ MainFetch \/ MainPrint \/ MainClose \/ NextRun

SpecMain == Init /\ [][NextMain]_vars

----------------------------------------------------------------------------
\* Properties.

K == "Khushi"
A == "Alice"

ReturnedFrom(op) == last.op = op /\ ~last.raised

RaisedFrom(op) == last.op = op /\ last.raised

\* C1 (under Spec): a fetch_all_names that returns gives the names of the
\* stored rows with their multiplicities, in some order: no name of an insert
\* that returned is missing, and when every stored row comes from an insert
\* that returned the result is exactly the bag of those names.  After
\* insert "Khushi", insert "Alice" on the empty table the result has two
\* elements, "Khushi" and "Alice".
C1_RoundTrip ==
    ReturnedFrom("fetch_all_names") =>
        /\ SameBag(all_names, NamesOf(rows))
        /\ \A x \in Names : Count(all_names, x) >= Count(NamesOf(acked), x)
        /\ (Len(rows) = Len(acked) => SameBag(all_names, NamesOf(acked)))
        /\ (NamesOf(acked) = <<K, A>> /\ Len(rows) = 2 =>
               /\ Len(all_names) = 2
               /\ {all_names[i] : i \in 1..2} = {K, A})

\* C1 witness: the literal scenario, answered in the other order.
C1_Witness ==
    /\ ReturnedFrom("fetch_all_names")
    /\ NamesOf(acked) = <<K, A>>
    /\ Len(rows) = 2
    /\ all_names = <<A, K>>

\* C2 (under Spec): a fetch_all_names that returns after N insert_name calls,
\* all of which returned, is N longer than the previous fetch_all_names
\* result; an insert_name that returns has added exactly one row.
C2_Growth ==
    /\ (ReturnedFrom("fetch_all_names") /\ last.growth0.valid =>
           Len(all_names) = last.growth0.base + last.growth0.n)
    /\ (ReturnedFrom("insert_name") => Len(rows) = Len(last.rows0) + 1)

\* C2 witness: one stored name listed, two inserts, three names listed.
C2_Witness ==
    /\ ReturnedFrom("fetch_all_names")
    /\ last.growth0 = [base |-> 1, n |-> 2, valid |-> TRUE]
    /\ Len(all_names) = 3

\* C3 (under Spec): create_table on a database that has the table changes
\* neither the table, nor its rows, nor its id counter, and raises nothing
\* when the connection is open and the database answers.
C3_CreateTableIdempotent ==
    last.op = "create_table" /\ last.exists0 =>
        /\ tableExists
        /\ rows = last.rows0
        /\ autoInc = last.autoInc0
        /\ (last.conn0 = "open" /\ last.fault = "none" => ~last.raised)

\* C3 witness: create_table returned on a table that holds rows.
C3_Witness ==
    /\ ReturnedFrom("create_table")
    /\ last.exists0
    /\ Len(rows) >= 1

\* C4 (under Spec): insert_name on a connection that is not open raises and
\* leaves the table, its rows and its id counter as they were.
C4_InsertOnClosedFails ==
    last.op = "insert_name" /\ last.conn0 # "open" =>
        /\ last.raised
        /\ rows = last.rows0
        /\ tableExists = last.exists0
        /\ autoInc = last.autoInc0
        /\ pending = <<>>

\* C4 witness: insert_name raised on a closed connection, rows stored.
C4_Witness ==
    /\ RaisedFrom("insert_name")
    /\ last.conn0 = "closed"
    /\ tableExists
    /\ Len(rows) >= 1

\* C5 (under SpecMain), the claim as stated: no execution of the script ends
\* with its connection still open.
C5_ClosedOnEveryExit == Terminated => conn # "open"

\* C6 (under Spec), the claim as stated: after a call that raised, the table
\* and its rows are what they were before the call.
C6_AllOrNothing ==
    last.raised => rows = last.rows0 /\ tableExists = last.exists0

\* C6 amended (under Spec): a call that returns has done all of its work; a
\* call that raised has removed nothing and changed no stored row;
\* fetch_all_names, close and create_connection change nothing; a failed
\* create_table leaves the rows as they were and may leave the table created;
\* a failed insert_name leaves the rows as they were or with its own row
\* added, nothing else.
C6_FailureBounded ==
    /\ (ReturnedFrom("create_table") => tableExists /\ rows = last.rows0)
    /\ (ReturnedFrom("insert_name") =>
           rows = Append(last.rows0, [id |-> last.autoInc0, name |-> last.name]))
    /\ (last.op \in {"fetch_all_names", "close", "create_connection"} =>
           rows = last.rows0 /\ tableExists = last.exists0)
    /\ (RaisedFrom("create_table") =>
           rows = last.rows0 /\ (last.exists0 => tableExists))
    /\ (RaisedFrom("insert_name") =>
           /\ tableExists = last.exists0
           /\ \/ rows = last.rows0
              \/ rows = Append(last.rows0, [id |-> last.autoInc0, name |-> last.name]))

\* C6 witness: create_table raised at its commit, the table is there.
C6_Witness ==
    /\ RaisedFrom("create_table")
    /\ last.fault \in CommitFaults
    /\ ~last.exists0
    /\ tableExists

\* C7 (under SpecMain): the script makes its calls once each, in order; the
\* first call that raises ends the run: nothing is issued after it, nothing
\* is printed after a failed create_table, insert_name or fetch_all_names,
\* and no exception is swallowed.
C7_FirstFailureEndsRun ==
    /\ IsPrefix(issued, Script)
    /\ (last.raised => failure # 0)
    /\ (failure # 0 =>
           /\ pc = "crashed"
           /\ Len(issued) = failure
           /\ (failure <= 5 => stdout = <<>>))

\* C7 witness: the first insert raised; the run ended there.
C7_Witness ==
    /\ pc = "crashed"
    /\ failure = 3
    /\ issued = <<"create_connection", "create_table", "insert_name">>
    /\ tableExists

C8_Inv ==
    /\ \A i, j \in 1..Len(rows) : rows[i].id = rows[j].id => i = j
    /\ (ReturnedFrom("insert_name") =>
           /\ last.autoInc0 \notin IdsOf(last.rows0)
           /\ rows = Append(last.rows0, [id |-> last.autoInc0, name |-> last.name]))

\* C8 (under Spec): no two stored records share an id; every step keeps the
\* stored records, with their ids and names, and at most appends to them; an
\* insert_name that returns appends one record with a fresh id, also when
\* the name is already stored.
C8_Lifecycle == [](C8_Inv) /\ [][IsPrefix(rows, rows')]_vars

\* C8 witness: the same name stored twice, under two ids.
C8_Witness ==
    /\ ReturnedFrom("insert_name")
    /\ Len(rows) = 2
    /\ rows[1].name = rows[2].name
    /\ rows[1].id # rows[2].id

\* C9 (under SpecMain), the claim as stated: the k-th run that succeeds
\* prints 2k names.
C9_PrintsTwoK ==
    pc = "done" => Len(stdout) = 1 /\ Len(stdout[1]) = 2 * okRuns

\* C9 amended (under SpecMain): the table and its rows outlive the runs; a
\* run that succeeds prints the names stored when it started plus "Khushi"
\* and "Alice", which include every name whose insert returned in an earlier
\* run; the k-th run that succeeds prints at least 2k names, and exactly 2k
\* when no run has failed.
C9_Persistence ==
    /\ IsPrefix(rowsAtStart, rows)
    /\ (rows # <<>> => tableExists)
    /\ (pc = "done" =>
           /\ Len(stdout) = 1
           /\ SameBag(stdout[1], NamesOf(rowsAtStart) \o <<K, A>>)
           /\ \A x \in Names : Count(stdout[1], x) >= Count(NamesOf(acked), x)
           /\ Len(stdout[1]) >= 2 * okRuns
           /\ (crashes = 0 => Len(stdout[1]) = 2 * okRuns))

\* C9 witness: the second successful run prints four names.
C9_Witness ==
    /\ pc = "done"
    /\ okRuns = 2
    /\ crashes = 0
    /\ Len(stdout[1]) = 4

\* C10 (under SpecMain): between the calls of the script the connection
\* holds no uncommitted row, and every row whose insert_name returned is
\* stored, whatever happens to the run afterwards.
C10_CommittedBeforeReturn ==
    /\ pending = <<>>
    /\ \A i \in 1..Len(acked) : \E j \in 1..Len(rows) : rows[j] = acked[i]

\* C10 witness: both inserts returned, fetch_all_names raised, the run
\* ended, and the two rows are stored.
C10_Witness ==
    /\ pc = "crashed"
    /\ failure = 5
    /\ Len(acked) = 2
    /\ Len(rows) = 2

====
